---- MODULE Spec2Model ----
(***************************************************************************)
(* Model of src/app.py: the /scrape pipeline (scrape_website) and the      *)
(* /render lookup (render_template) over the shared MongoDB collection and *)
(* the shared static/css, static/js directories.                           *)
(*                                                                         *)
(* scrape_website is an `async def` that never awaits, so one server       *)
(* process runs one request at a time from start to finish.  The collection*)
(* and the static directories are shared by every server process, so the   *)
(* processes of Procs interleave at each of their I/O operations: a GET,   *)
(* the opening of a file, its writing, a find_one, an insert_one.          *)
(*                                                                         *)
(* An HTML document is modelled by the sequence of its <link> and <script> *)
(* elements in document order, a URL by its host and path segments, the    *)
(* text served at a URL by that URL.  What a page URL serves is fixed      *)
(* during a behaviour; whether a GET succeeds is decided anew at each GET. *)
(*                                                                         *)
(* The environment fails only through requests.get / raise_for_status:     *)
(* references are well-formed (urljoin does not raise), and the file       *)
(* system and the database answer every call.                              *)
(***************************************************************************)
EXTENDS Integers, Sequences, FiniteSets, TLC

\* ------------------------------------------------------------------ bounds
\* scrape requests served in one behaviour
MaxRequests == 3
\* elements of a page in the specification of one process over every page
MaxTags == 2
\* hex digits of an ObjectId string (24 in bson)
OidHexLen == 2

Procs == {"p1", "p2"}

\* ------------------------------------------------------------------ URLs
Url(host, path) == [host |-> host, path |-> path]
NoUrl == Url("", <<>>)

U1 == Url("x.test", <<"dir", "page.html">>)
U2 == Url("y.test", <<"index.html">>)
PageUrls == {U1, U2}

\* attribute values: absent, the empty string, or a reference
Ref(kind, host, segs) == [kind |-> kind, host |-> host, segs |-> segs]
Absent   == Ref("absent", "", <<>>)
EmptyStr == Ref("empty", "", <<>>)
RelRef(segs)       == Ref("relative", "", segs)
RootRef(segs)      == Ref("rooted", "", segs)
AbsRef(host, segs) == Ref("absolute", host, segs)

\* Python truthiness of tag.get(attr): None and "" are falsy
Truthy(v) == v.kind \notin {"absent", "empty"}

urljoin(base, ref) ==
    CASE ref.kind = "absolute" -> Url(ref.host, ref.segs)
      [] ref.kind = "rooted"   -> Url(base.host, ref.segs)
      [] ref.kind = "relative" ->
            Url(base.host, SubSeq(base.path, 1, Len(base.path) - 1) \o ref.segs)
      [] OTHER -> base

\* ------------------------------------------------------------------ HTML
Tag(name, rel, href, src) == [name |-> name, rel |-> rel, href |-> href, src |-> src]
LinkTag(rel, href) == Tag("link", rel, href, Absent)
ScriptTag(src)     == Tag("script", "", Absent, src)

find_all_link_with_href(soup) ==
    LET IsSheet(t) == t.name = "link" /\ t.rel = "stylesheet" /\ Truthy(t.href)
    IN  SelectSeq(soup, IsSheet)

\* soup.find_all("link", {"rel": "stylesheet"})
find_all_link(soup) ==
    LET IsSheet(t) == t.name = "link" /\ t.rel = "stylesheet"
    IN  SelectSeq(soup, IsSheet)

\* soup.find_all("script", {"src": True}): the attribute is present
find_all_script(soup) ==
    LET HasSrc(t) == t.name = "script" /\ t.src.kind # "absent"
    IN  SelectSeq(soup, HasSrc)

\* BeautifulSoup(response.content, "html.parser"): a page is given by its
\* elements, which are what the parser hands to find_all and prettify
BeautifulSoup(content) == content

\* soup.prettify(): one line per element, references left as they are
prettify(soup) == [i \in 1..Len(soup) |-> [indent |-> 0, line |-> soup[i]]]

\* the documents a page fetch can return: every sequence of at most n elements
Elements ==
    { LinkTag("stylesheet", RelRef(<<"a", "b.css">>)),
      LinkTag("stylesheet", Absent),
      LinkTag("stylesheet", EmptyStr),
      LinkTag("icon", AbsRef("cdn.test", <<"f.ico">>)),
      ScriptTag(RootRef(<<"c.js">>)),
      ScriptTag(EmptyStr),
      ScriptTag(Absent) }

DocsUpTo(n) == UNION { [1..k -> Elements] : k \in 0..n }

\* ------------------------------------------------------------------ files
\* os.path.join(CSS_DIR, f"style_{idx}.css"), os.path.join(JS_DIR, f"script_{idx}.js")
Path(dir, stem, idx, ext) == [dir |-> dir, stem |-> stem, idx |-> idx, ext |-> ext]
css_filename(idx) == Path("", "style_", idx, ".css")
js_filename(idx)  == Path("", "script_", idx, ".js")
css_path(idx) == [css_filename(idx) EXCEPT !.dir = "static/css"]
js_path(idx)  == [js_filename(idx) EXCEPT !.dir = "static/js"]
\* the strings appended to css_files / js_files
css_public(idx) == [css_filename(idx) EXCEPT !.dir = "/static/css"]
js_public(idx)  == [js_filename(idx) EXCEPT !.dir = "/static/js"]
\* app.mount("/static", StaticFiles(directory=STATIC_DIR)): public path -> file
StaticFile(public) ==
    [public EXCEPT !.dir = IF public.dir = "/static/css" THEN "static/css" ELSE "static/js"]

File(kind, text) == [kind |-> kind, text |-> text]
NoFile    == File("absent", NoUrl)
Truncated == File("empty", NoUrl)         \* opened with "w", nothing written yet
Garbled   == File("garbled", NoUrl)       \* bytes of two writers
\* the text the web serves at an asset URL is particular to that URL
TextAt(u) == File("text", u)

\* ------------------------------------------------------------------ ObjectId
HexLower == <<"0","1","2","3","4","5","6","7","8","9","a","b","c","d","e","f">>
HexUpper == <<"0","1","2","3","4","5","6","7","8","9","A","B","C","D","E","F">>
IsHex(c) == \E i \in 1..16 : HexLower[i] = c \/ HexUpper[i] = c
HexVal(c) == (CHOOSE i \in 1..16 : HexLower[i] = c \/ HexUpper[i] = c) - 1

\* bson.objectid.ObjectId.is_valid for a str: OidHexLen hex digits
ObjectIdValid(s) == Len(s) = OidHexLen /\ \A i \in 1..Len(s) : IsHex(s[i])
\* ObjectId(s): the id as a sequence of nibbles
ObjectId(s) == [i \in 1..Len(s) |-> HexVal(s[i])]
\* str(oid)
OidStr(oid) == [i \in 1..Len(oid) |-> HexLower[oid[i] + 1]]

NewObjectId_stuck(p, n) == [i \in 1..OidHexLen |-> 10]

\* ObjectId(): a per-process random part followed by a per-process counter
ProcRand(p) == IF p = "p1" THEN 10 ELSE 11
NewObjectId(p, n) ==
    [i \in 1..OidHexLen |->
        IF i = 1 THEN ProcRand(p) ELSE IF i = OidHexLen THEN n % 16 ELSE 10]

\* the template_id strings tried: hex strings of every length up to one more
\* than an ObjectId has, and strings of the right length with a non-hex "z"
IdChars == {"a", "B"}
TemplateIds ==
    LET hex == UNION { [1..k -> IdChars] : k \in 0..(OidHexLen + 1) }
    IN  hex \cup { [s EXCEPT ![1] = "z"] : s \in { h \in hex : Len(h) = OidHexLen } }

\* ------------------------------------------------------------------ state
VARIABLES
    web,           \* what the web serves at each page URL
    collection,    \* the MongoDB collection "templates": a set of documents
    files,         \* the files under static/css and static/js
    oid_inc,       \* per process: the counter of its ObjectId generator
    pc,            \* per process: the phase of the request it is serving
    url,           \* per process: the form field url
    soup,          \* per process: the parsed page
    html_content,  \* per process: soup.prettify()
    idx,           \* per process: the index of the running enumerate loop
    css_files,     \* per process
    js_files,      \* per process
    response,      \* per process: the response sent to the caller
    attempts,      \* per process: the asset GETs of this request, with outcome
    trace,         \* per process: the phases this request has entered
    page,          \* per process: how requests.get(url) ended: "pending", "ok", "error"
    before,        \* per process: the collection when the request began
    alone,         \* per process: no other request has run since this one began
    nreq,          \* number of scrape requests received
    rendered       \* the last render request: its template_id and the response

vars == << web, collection, files, oid_inc, pc, url, soup, html_content, idx,
           css_files, js_files, response, attempts, trace, page, before, alone,
           nreq, rendered >>

locals == << soup, html_content, idx, css_files, js_files, attempts >>

Terminal == {"Inserted", "FetchFailed", "DuplicateUrl"}
AtRest   == Terminal \cup {"Idle"}

\* the phase of the scrape state machine a program position belongs to
Phase(q) ==
    CASE q = "WritingCSS" -> "ArchivingCSS"
      [] q = "WritingJS"  -> "ArchivingJS"
      [] q = "Inserting"  -> "CheckingDuplicate"
      [] OTHER -> q

Goto(p, q) ==
    /\ pc' = [pc EXCEPT ![p] = q]
    /\ trace' = [trace EXCEPT ![p] =
                    IF Phase(q) = Phase(pc[p]) THEN @ ELSE Append(@, Phase(q))]

Response(status, detail, location) ==
    [status |-> status, detail |-> detail, location |-> location]
NoResponse == Response(0, "", <<>>)

Document(id, u, html, css, js) ==
    [_id |-> id, url |-> u, html |-> html, css_files |-> css, js_files |-> js]

FsPaths == { css_path(i) : i \in 0..(MaxTags - 1) } \cup { js_path(i) : i \in 0..(MaxTags - 1) }

Rendered(status, detail, html, css, js) ==
    [status |-> status, detail |-> detail, html_content |-> html,
     css_files |-> css, js_files |-> js]
NotRendered == [template_id |-> <<>>, out |-> Rendered(0, "", <<>>, <<>>, <<>>)]

InitWith(webs) ==
    /\ web \in webs
    /\ collection = {}
    /\ files = [f \in FsPaths |-> NoFile]
    /\ oid_inc = [p \in Procs |-> 10]
    /\ pc = [p \in Procs |-> "Idle"]
    /\ url = [p \in Procs |-> NoUrl]
    /\ soup = [p \in Procs |-> <<>>]
    /\ html_content = [p \in Procs |-> <<>>]
    /\ idx = [p \in Procs |-> 0]
    /\ css_files = [p \in Procs |-> <<>>]
    /\ js_files = [p \in Procs |-> <<>>]
    /\ response = [p \in Procs |-> NoResponse]
    /\ attempts = [p \in Procs |-> <<>>]
    /\ trace = [p \in Procs |-> <<>>]
    /\ page = [p \in Procs |-> "pending"]
    /\ before = [p \in Procs |-> {}]
    /\ alone = [p \in Procs |-> FALSE]
    /\ nreq = 0
    /\ rendered = NotRendered

\* ------------------------------------------------------------------ scrape
find_one_url_never(u) == FALSE

\* collection.find_one({"url": url}) is truthy
find_one_url(u) == \E d \in collection : d.url = u

\* POST /scrape arrives at process p
Receive(p, u) ==
    /\ pc[p] \in AtRest
    /\ nreq < MaxRequests
    /\ nreq' = nreq + 1
    /\ url' = [url EXCEPT ![p] = u]
    /\ pc' = [pc EXCEPT ![p] = "Fetching"]
    /\ trace' = [trace EXCEPT ![p] = <<"Fetching">>]
    /\ soup' = [soup EXCEPT ![p] = <<>>]
    /\ html_content' = [html_content EXCEPT ![p] = <<>>]
    /\ idx' = [idx EXCEPT ![p] = 0]
    /\ css_files' = [css_files EXCEPT ![p] = <<>>]
    /\ js_files' = [js_files EXCEPT ![p] = <<>>]
    /\ attempts' = [attempts EXCEPT ![p] = <<>>]
    /\ response' = [response EXCEPT ![p] = NoResponse]
    /\ page' = [page EXCEPT ![p] = "pending"]
    /\ before' = [before EXCEPT ![p] = collection]
    /\ alone' = [q \in Procs |-> IF q = p THEN \A r \in Procs \ {p} : pc[r] \in AtRest
                                 ELSE FALSE]
    /\ UNCHANGED << web, collection, files, oid_inc, rendered >>

after_page_fetch_swallowed(ok) == "Extracting"

\* try: requests.get(url); raise_for_status()  except: raise HTTPException(400)
after_page_fetch(ok) == IF ok THEN "Extracting" ELSE "FetchFailed"

then_early_check(q) ==
    CASE q = "Extracting"   -> "ArchivingCSS"
      [] q = "ArchivingCSS" -> "CheckingDuplicate"
      [] q = "ArchivingJS"  -> "CheckingDuplicate"

\* the order of the statements of scrape_website after the page fetch
then(q) ==
    CASE q = "Extracting"   -> "ArchivingCSS"
      [] q = "ArchivingCSS" -> "ArchivingJS"
      [] q = "ArchivingJS"  -> "CheckingDuplicate"

FetchPage(p) ==
    /\ pc[p] = "Fetching"
    /\ \E ok \in BOOLEAN :
        /\ page' = [page EXCEPT ![p] = IF ok THEN "ok" ELSE "error"]
        /\ Goto(p, after_page_fetch(ok))
        /\ response' = [response EXCEPT ![p] =
                          IF after_page_fetch(ok) = "FetchFailed"
                          THEN Response(400, "Failed to fetch the URL", <<>>)
                          ELSE @]
    /\ UNCHANGED << web, collection, files, oid_inc, url, locals, before,
                    alone, nreq, rendered >>

\* soup = BeautifulSoup(response.content); html_content = soup.prettify()
Extract(p) ==
    /\ pc[p] = "Extracting"
    /\ soup' = [soup EXCEPT ![p] = BeautifulSoup(web[url[p]])]
    /\ html_content' = [html_content EXCEPT ![p] = prettify(soup'[p])]
    /\ idx' = [idx EXCEPT ![p] = 0]
    /\ Goto(p, then("Extracting"))
    /\ UNCHANGED << web, collection, files, oid_inc, url, css_files, js_files,
                    response, attempts, page, before, alone, nreq, rendered >>

\* open(path, "w"): creates or truncates the file
open_w(fs, path) == [fs EXCEPT ![path] = Truncated]

write_keep(fs, path, text) ==
    IF fs[path] = Truncated THEN { [fs EXCEPT ![path] = text] } ELSE { fs }

\* f.write(text) and close: the file holds text, unless another process wrote
\* the same file since it was opened and the two writes overlap
write(fs, path, text) ==
    { [fs EXCEPT ![path] = c] :
        c \in IF fs[path] = Truncated THEN {text} ELSE {text, Garbled} }

css_after_placeholder(list, i, ok) == Append(list, css_public(i))
js_after_placeholder(list, i, ok)  == Append(list, js_public(i))

\* the list after one iteration of the loop body: append on success, continue
\* (nothing appended) on RequestException
css_after(list, i, ok) == IF ok THEN Append(list, css_public(i)) ELSE list
js_after(list, i, ok)  == IF ok THEN Append(list, js_public(i)) ELSE list

\* one requests.get of an asset: the URL asked for and whether it succeeded
Attempt(kind, i, u, ok) == [kind |-> kind, idx |-> i, url |-> u, ok |-> ok]

\* one iteration of: for idx, link_tag in enumerate(soup.find_all("link", ...))
ArchiveCss(p) ==
    /\ pc[p] = "ArchivingCSS"
    /\ LET tags == find_all_link(soup[p]) IN
       IF idx[p] >= Len(tags)
       THEN /\ Goto(p, then("ArchivingCSS"))
            /\ idx' = [idx EXCEPT ![p] = 0]
            /\ UNCHANGED << files, css_files, attempts >>
       ELSE LET href == tags[idx[p] + 1].href IN
            IF ~Truthy(href)
            THEN /\ idx' = [idx EXCEPT ![p] = @ + 1]
                 /\ UNCHANGED << pc, trace, files, css_files, attempts >>
            ELSE \E ok \in BOOLEAN :
                 /\ attempts' = [attempts EXCEPT ![p] = Append(@, Attempt("css", idx[p], urljoin(url[p], href), ok))]
                 /\ IF ok
                    THEN /\ files' = open_w(files, css_path(idx[p]))
                         /\ Goto(p, "WritingCSS")
                         /\ UNCHANGED << idx, css_files >>
                    ELSE /\ css_files' = [css_files EXCEPT ![p] = css_after(@, idx[p], FALSE)]
                         /\ idx' = [idx EXCEPT ![p] = @ + 1]
                         /\ UNCHANGED << pc, trace, files >>
    /\ UNCHANGED << web, collection, oid_inc, url, soup, html_content, js_files,
                    response, page, before, alone, nreq, rendered >>

\* f.write(css_response.text); css_files.append(...)
WriteCss(p) ==
    /\ pc[p] = "WritingCSS"
    /\ LET href == find_all_link(soup[p])[idx[p] + 1].href IN
       files' \in write(files, css_path(idx[p]), TextAt(urljoin(url[p], href)))
    /\ css_files' = [css_files EXCEPT ![p] = css_after(@, idx[p], TRUE)]
    /\ idx' = [idx EXCEPT ![p] = @ + 1]
    /\ Goto(p, "ArchivingCSS")
    /\ UNCHANGED << web, collection, oid_inc, url, soup, html_content, js_files,
                    response, attempts, page, before, alone, nreq, rendered >>

\* one iteration of: for idx, script_tag in enumerate(soup.find_all("script", ...))
ArchiveJs(p) ==
    /\ pc[p] = "ArchivingJS"
    /\ LET tags == find_all_script(soup[p]) IN
       IF idx[p] >= Len(tags)
       THEN /\ Goto(p, then("ArchivingJS"))
            /\ UNCHANGED << idx, files, js_files, attempts >>
       ELSE LET src == tags[idx[p] + 1].src IN
            IF ~Truthy(src)
            THEN /\ idx' = [idx EXCEPT ![p] = @ + 1]
                 /\ UNCHANGED << pc, trace, files, js_files, attempts >>
            ELSE \E ok \in BOOLEAN :
                 /\ attempts' = [attempts EXCEPT ![p] = Append(@, Attempt("js", idx[p], urljoin(url[p], src), ok))]
                 /\ IF ok
                    THEN /\ files' = open_w(files, js_path(idx[p]))
                         /\ Goto(p, "WritingJS")
                         /\ UNCHANGED << idx, js_files >>
                    ELSE /\ js_files' = [js_files EXCEPT ![p] = js_after(@, idx[p], FALSE)]
                         /\ idx' = [idx EXCEPT ![p] = @ + 1]
                         /\ UNCHANGED << pc, trace, files >>
    /\ UNCHANGED << web, collection, oid_inc, url, soup, html_content, css_files,
                    response, page, before, alone, nreq, rendered >>

\* f.write(js_response.text); js_files.append(...)
WriteJs(p) ==
    /\ pc[p] = "WritingJS"
    /\ LET src == find_all_script(soup[p])[idx[p] + 1].src IN
       files' \in write(files, js_path(idx[p]), TextAt(urljoin(url[p], src)))
    /\ js_files' = [js_files EXCEPT ![p] = js_after(@, idx[p], TRUE)]
    /\ idx' = [idx EXCEPT ![p] = @ + 1]
    /\ Goto(p, "ArchivingJS")
    /\ UNCHANGED << web, collection, oid_inc, url, soup, html_content, css_files,
                    response, attempts, page, before, alone, nreq, rendered >>

\* if collection.find_one({"url": url}): raise HTTPException(400, ...)
CheckDuplicate(p) ==
    /\ pc[p] = "CheckingDuplicate"
    /\ IF find_one_url(url[p])
       THEN /\ Goto(p, "DuplicateUrl")
            /\ response' = [response EXCEPT ![p] =
                              Response(400, "This URL has already been scraped.", <<>>)]
       ELSE /\ Goto(p, "Inserting")
            /\ UNCHANGED response
    /\ UNCHANGED << web, collection, files, oid_inc, url, locals, page, before,
                    alone, nreq, rendered >>

insert_one_unique(coll, doc) ==
    IF \E d \in coll : d.url = doc.url THEN coll ELSE coll \cup {doc}

\* collection.insert_one(document): no unique index on url
insert_one(coll, doc) == coll \cup {doc}

\* result = collection.insert_one(document); return RedirectResponse(.., 303)
Insert(p) ==
    /\ pc[p] = "Inserting"
    /\ LET id == NewObjectId(p, oid_inc[p])
           document == Document(id, url[p], html_content[p], css_files[p], js_files[p])
       IN  /\ collection' = insert_one(collection, document)
           /\ response' = [response EXCEPT ![p] = Response(303, "/render/", OidStr(id))]
    /\ oid_inc' = [oid_inc EXCEPT ![p] = @ + 1]
    /\ Goto(p, "Inserted")
    /\ UNCHANGED << web, files, url, locals, page, before, alone, nreq, rendered >>

\* ------------------------------------------------------------------ render
render_template_conflated(template_id) ==
    LET found == { d \in collection : ObjectIdValid(template_id) /\ d._id = ObjectId(template_id) } IN
    IF found = {}
    THEN Rendered(404, "Template not found.", <<>>, <<>>, <<>>)
    ELSE LET document == CHOOSE d \in found : TRUE
         IN  Rendered(200, "", document.html, document.css_files, document.js_files)

render_template(template_id) ==
    IF ~ObjectIdValid(template_id)
    THEN Rendered(400, "Invalid template ID.", <<>>, <<>>, <<>>)
    ELSE LET found == { d \in collection : d._id = ObjectId(template_id) } IN
         IF found = {}
         THEN Rendered(404, "Template not found.", <<>>, <<>>, <<>>)
         ELSE LET document == CHOOSE d \in found : TRUE
              IN  Rendered(200, "", document.html, document.css_files, document.js_files)

\* GET /render?template_id=...
Render(template_id) ==
    /\ rendered' = [template_id |-> template_id, out |-> render_template(template_id)]
    /\ UNCHANGED << web, collection, files, oid_inc, pc, url, locals, response,
                    trace, page, before, alone, nreq >>

\* ------------------------------------------------------------------ specifications
Step(p) ==
    \/ \E u \in PageUrls : Receive(p, u)
    \/ FetchPage(p)
    \/ Extract(p)
    \/ ArchiveCss(p)
    \/ WriteCss(p)
    \/ ArchiveJs(p)
    \/ WriteJs(p)
    \/ CheckDuplicate(p)
    \/ Insert(p)

\* the pages of the specification with two server processes
SheetPage  == << LinkTag("stylesheet", RelRef(<<"s.css">>)) >>
ScriptPage == << LinkTag("stylesheet", Absent), ScriptTag(RelRef(<<"app.js">>)) >>
Webs == [PageUrls -> {SheetPage, ScriptPage}]

Init == InitWith(Webs)
Next == \E p \in Procs : Step(p)
Spec == Init /\ [][Next]_vars

\* every request that has started keeps running: each fetch returns
OneWeb == { [u \in PageUrls |-> IF u = U1 THEN SheetPage ELSE ScriptPage] }
FairInit == InitWith(OneWeb)
FairSpec ==
    /\ FairInit /\ [][Next]_vars
    /\ \A p \in Procs : WF_vars(Step(p) /\ pc[p] \notin AtRest)

\* one server process and every page of at most MaxTags elements
DocWebs == { [u \in PageUrls |-> d] : d \in DocsUpTo(MaxTags) }
DocInit == InitWith(DocWebs)
DocNext == Step("p1")
DocSpec == DocInit /\ [][DocNext]_vars

\* one server process scraping, and render requests
RenderNext == Step("p1") \/ (\E t \in TemplateIds : Render(t))
RenderInit == InitWith(OneWeb)
RenderSpec == RenderInit /\ [][RenderNext]_vars

\* ------------------------------------------------------------------ claims
Range(s) == { s[i] : i \in 1..Len(s) }
Stored(coll, u) == \E d \in coll : d.url = u
WasStored(p) == Stored(before[p], url[p])
DuplicateResponse == Response(400, "This URL has already been scraped.", <<>>)

\* C1 as stated: a scrape of a URL that already has a Page Record, run with no
\* other request interleaved, ends in DuplicateUrl with the fixed 400 message
\* and leaves the set of Page Records as it was.
C1_Original ==
    \A p \in Procs :
        (pc[p] \in Terminal /\ WasStored(p) /\ alone[p])
            => /\ pc[p] = "DuplicateUrl"
               /\ response[p] = DuplicateResponse
               /\ collection = before[p]

\* C1 amended: such a scrape ends in DuplicateUrl (fixed 400 message) when its
\* page fetch succeeds and in FetchFailed (400) when its page fetch fails; in
\* both cases, and at every moment of the request, the set of Page Records is
\* the one the request found.
C1_DuplicateRejected ==
    \A p \in Procs :
        (WasStored(p) /\ alone[p])
            => /\ collection = before[p]
               /\ pc[p] \in Terminal =>
                    /\ page[p] = "ok" =>
                          pc[p] = "DuplicateUrl" /\ response[p] = DuplicateResponse
                    /\ page[p] = "error" =>
                          pc[p] = "FetchFailed" /\ response[p].status = 400

\* C1 witness: a lone request for a stored URL, rejected after its asset fetches
C1_Witness ==
    \E p \in Procs :
        /\ pc[p] = "DuplicateUrl" /\ WasStored(p) /\ alone[p]
        /\ Len(attempts[p]) > 0

\* the whole request, when no other request is interleaved
C2_Alone ==
    \A p \in Procs :
        (pc[p] \in Terminal /\ alone[p] /\ ~WasStored(p) /\ page[p] = "ok")
            => /\ pc[p] = "Inserted"
               /\ \E d \in collection :
                    /\ d \notin before[p]
                    /\ collection = before[p] \cup {d}
                    /\ d.url = url[p]
                    /\ \A e \in before[p] : e._id # d._id
                    /\ response[p] = Response(303, "/render/", OidStr(d._id))

\* the existence check and the insert, under any interleaving
C2_Step ==
    \A p \in Procs :
        /\ (pc[p] = "CheckingDuplicate" /\ pc'[p] # pc[p] /\ ~Stored(collection, url[p]))
              => pc'[p] = "Inserting"
        /\ (pc[p] = "Inserting" /\ pc'[p] # pc[p])
              => /\ pc'[p] = "Inserted"
                 /\ \E d \in collection' :
                      /\ d \notin collection
                      /\ collection' = collection \cup {d}
                      /\ d.url = url[p]
                      /\ \A e \in collection : e._id # d._id
                      /\ response'[p] = Response(303, "/render/", OidStr(d._id))

\* C2: a scrape whose page fetch succeeds and whose URL has no Page Record adds
\* exactly one record; its sourceUrl is the requested URL, its identifier is
\* none of the identifiers already stored, the records already stored are
\* untouched, and the 303 redirect carries the identifier of the new record.
\* Stated for the insert step under any interleaving, and for the whole
\* request when nothing is interleaved.
C2_ScrapeAddsOneRecord == []C2_Alone /\ [][C2_Step]_vars

\* C2 witness: a lone request added a record, with a stylesheet, to a store that had one
C2_Witness ==
    \E p \in Procs :
        /\ pc[p] = "Inserted" /\ alone[p] /\ before[p] # {}
        /\ \E d \in collection \ before[p] : d.css_files # <<>>

\* C3: the existence check and the insert are separate operations: a request
\* that has passed the check inserts even though a record of its URL has been
\* inserted in between, which leaves two Page Records with one sourceUrl.
C3_CheckThenInsertRace ==
    [][ \A p \in Procs :
          (pc[p] = "Inserting" /\ pc'[p] = "Inserted" /\ Stored(collection, url[p]))
             => Cardinality({ d \in collection' : d.url = url[p] }) >= 2 ]_vars

\* C3 witness: both processes inserted the same URL
C3_Witness ==
    /\ \E d1, d2 \in collection : d1 # d2 /\ d1.url = d2.url
    /\ \E p, q \in Procs :
          p # q /\ pc[p] = "Inserted" /\ pc[q] = "Inserted" /\ url[p] = url[q]

\* the references of a page, read off the document the web serves
IsSheetLink(t) == t.name = "link" /\ t.rel = "stylesheet"
HasHref(t)     == IsSheetLink(t) /\ t.href.kind \notin {"absent", "empty"}
IsSrcScript(t) == t.name = "script" /\ t.src.kind # "absent"
HasSrc(t)      == t.name = "script" /\ t.src.kind \notin {"absent", "empty"}
LinkRefs(doc)   == SelectSeq(doc, HasHref)
ScriptRefs(doc) == SelectSeq(doc, HasSrc)

IsCss(a) == a.kind = "css"
IsJs(a)  == a.kind = "js"
IsOk(a)  == a.ok
CssAttempts(p) == SelectSeq(attempts[p], IsCss)
JsAttempts(p)  == SelectSeq(attempts[p], IsJs)

StylePath(i)  == [dir |-> "/static/css", stem |-> "style_", idx |-> i, ext |-> ".css"]
ScriptPath(i) == [dir |-> "/static/js", stem |-> "script_", idx |-> i, ext |-> ".js"]
\* the paths of the attempts that succeeded, in the order of the attempts
StylePaths(as)  == LET ok == SelectSeq(as, IsOk) IN [k \in 1..Len(ok) |-> StylePath(ok[k].idx)]
ScriptPaths(as) == LET ok == SelectSeq(as, IsOk) IN [k \in 1..Len(ok) |-> ScriptPath(ok[k].idx)]
Increasing(paths) == \A j, k \in 1..Len(paths) : j < k => paths[j].idx < paths[k].idx

\* the record a request inserted
InsertedBy(p) == CHOOSE d \in collection : OidStr(d._id) = response[p].location

\* C4: a scrape that reaches the insert has fetched each stylesheet link that
\* has an href once, in document order; the stored cssPaths has one entry per
\* fetch that succeeded and none for a fetch that failed, in the order of the
\* links; likewise jsPaths over the script sources.
C4_PathsPerFetchedAsset ==
    \A p \in Procs :
        pc[p] = "Inserted" =>
            LET doc == web[url[p]]
                d   == InsertedBy(p)
                css == CssAttempts(p)
                js  == JsAttempts(p)
            IN  /\ Len(css) = Len(LinkRefs(doc))
                /\ \A k \in 1..Len(css) : css[k].url = urljoin(url[p], LinkRefs(doc)[k].href)
                /\ d.css_files = StylePaths(css)
                /\ Len(d.css_files) = Cardinality({ k \in 1..Len(css) : css[k].ok })
                /\ Increasing(d.css_files)
                /\ Len(js) = Len(ScriptRefs(doc))
                /\ \A k \in 1..Len(js) : js[k].url = urljoin(url[p], ScriptRefs(doc)[k].src)
                /\ d.js_files = ScriptPaths(js)
                /\ Len(d.js_files) = Cardinality({ k \in 1..Len(js) : js[k].ok })
                /\ Increasing(d.js_files)

\* C4 witness: two stylesheet links, one of them fetched
C4_Witness ==
    \E p \in Procs :
        /\ pc[p] = "Inserted"
        /\ Len(LinkRefs(web[url[p]])) = 2
        /\ Len(InsertedBy(p).css_files) = 1

\* C5 as stated: the index in a filename is the zero-based position of the
\* reference in the list of the non-empty href (src) values, so the k-th
\* asset fetched has index k-1.
C5_Original ==
    \A p \in Procs :
        /\ \A k \in 1..Len(CssAttempts(p)) : CssAttempts(p)[k].idx = k - 1
        /\ \A k \in 1..Len(JsAttempts(p))  : JsAttempts(p)[k].idx = k - 1

\* the position in seq of its k-th element that satisfies Test
PosOfKth(seq, Test(_), k) ==
    CHOOSE i \in 1..Len(seq) :
        Test(seq[i]) /\ Cardinality({ j \in 1..i : Test(seq[j]) }) = k

\* C5 amended: the index is the zero-based position of the element among all
\* <link rel="stylesheet"> elements of the page, with or without an href, and
\* among all <script> elements that carry a src attribute, empty or not. A
\* failed fetch consumes its index, and so does a stylesheet link with a
\* missing or empty href and a script with an empty src; only a script without
\* a src attribute is not counted.
C5_IndexIsElementPosition ==
    \A p \in Procs :
        LET doc     == web[url[p]]
            links   == SelectSeq(doc, IsSheetLink)
            scripts == SelectSeq(doc, IsSrcScript)
        IN  /\ \A k \in 1..Len(CssAttempts(p)) :
                  CssAttempts(p)[k].idx = PosOfKth(links, HasHref, k) - 1
            /\ \A k \in 1..Len(JsAttempts(p)) :
                  JsAttempts(p)[k].idx = PosOfKth(scripts, HasSrc, k) - 1
            /\ pc[p] \in {"CheckingDuplicate", "Inserting", "Inserted", "DuplicateUrl"} =>
                  /\ css_files[p] = StylePaths(CssAttempts(p))
                  /\ js_files[p] = ScriptPaths(JsAttempts(p))

\* C5 witness: a stylesheet archived as style_1.css although it is the first with an href
C5_Witness ==
    \E p \in Procs :
        /\ pc[p] = "Inserted"
        /\ css_files[p] = << StylePath(1) >>
        /\ Len(LinkRefs(web[url[p]])) = 1

\* how the request ends, and what a failed fetch leaves behind
C6_Ends ==
    \A p \in Procs :
        /\ (pc[p] \in Terminal /\ page[p] = "ok" /\ ~Stored(before[p], url[p]))
              => pc[p] = "Inserted" /\ response[p].status = 303
        /\ \A k \in 1..Len(attempts[p]) :
              LET a == attempts[p][k] IN
              ~a.ok => /\ StylePath(a.idx) \in Range(css_files[p]) => a.kind # "css"
                       /\ ScriptPath(a.idx) \in Range(js_files[p]) => a.kind # "js"

\* the step in which an asset fetch fails
C6_FailedFetchStep ==
    \A p \in Procs :
        (Len(attempts'[p]) = Len(attempts[p]) + 1 /\ ~attempts'[p][Len(attempts'[p])].ok)
            => /\ files' = files
               /\ css_files'[p] = css_files[p]
               /\ js_files'[p] = js_files[p]
               /\ pc'[p] = pc[p]
               /\ response'[p] = response[p]

\* C6: a failed asset fetch never fails the scrape: a scrape whose page fetch
\* succeeds and whose URL is not stored ends in Inserted (303) whichever of its
\* asset fetches fail; the failed asset gets no file, no entry in cssPaths or
\* jsPaths, and the caller sees no error.
C6_AssetFailureAbsorbed == []C6_Ends /\ [][C6_FailedFetchStep]_vars

\* C6 witness: every asset fetch failed, and the record was inserted
C6_Witness ==
    \E p \in Procs :
        /\ pc[p] = "Inserted"
        /\ Len(attempts[p]) = 2
        /\ \A k \in 1..Len(attempts[p]) : ~attempts[p][k].ok
        /\ InsertedBy(p).css_files = <<>> /\ InsertedBy(p).js_files = <<>>

\* the state of a request whose page fetch failed
C7_Failed ==
    \A p \in Procs :
        page[p] = "error" =>
            /\ pc[p] = "FetchFailed"
            /\ response[p].status = 400
            /\ trace[p] = << "Fetching", "FetchFailed" >>
            /\ attempts[p] = <<>> /\ soup[p] = <<>>
            /\ css_files[p] = <<>> /\ js_files[p] = <<>>
            /\ alone[p] => collection = before[p]

\* the failing step, and the only step that follows it: the next request
C7_FailedStep ==
    \A p \in Procs :
        /\ (page[p] # "error" /\ page'[p] = "error")
              => files' = files /\ collection' = collection
        /\ (page[p] = "error" /\ pc'[p] # pc[p])
              => pc'[p] = "Fetching" /\ nreq' = nreq + 1
                 /\ files' = files /\ collection' = collection

\* C7: a failed page fetch ends the scrape in FetchFailed (400) before
\* extraction, archiving and the duplicate check: no asset is fetched, no file
\* is written and the set of Page Records is unchanged.
C7_PageFetchFailureAborts == []C7_Failed /\ [][C7_FailedStep]_vars

\* C7 witness: a failed page fetch with records stored and files written before
C7_Witness ==
    \E p \in Procs :
        /\ pc[p] = "FetchFailed" /\ alone[p]
        /\ collection # {}
        /\ \E f \in DOMAIN files : files[f].kind = "text"

\* well-formed identifier strings, read off the string itself
HexCharSet == { "0", "1", "2", "3", "4", "5", "6", "7", "8", "9", "a", "b", "c",
                "d", "e", "f", "A", "B", "C", "D", "E", "F" }
WellFormed(t) == Len(t) = OidHexLen /\ \A i \in 1..Len(t) : t[i] \in HexCharSet
Lower(c) ==
    CASE c = "A" -> "a" [] c = "B" -> "b" [] c = "C" -> "c"
      [] c = "D" -> "d" [] c = "E" -> "e" [] c = "F" -> "f" [] OTHER -> c
HasId(d, t) == OidStr(d._id) = [i \in 1..Len(t) |-> Lower(t[i])]

\* the step of a render request, recognised by the new value of rendered
C8_Lookup ==
    rendered' # rendered =>
        LET t   == rendered'.template_id
            out == rendered'.out
        IN  /\ out.status \in {200, 400, 404}
            /\ out.status = 400 <=> ~WellFormed(t)
            /\ out.status = 404 <=> (WellFormed(t) /\ ~\E d \in collection : HasId(d, t))
            /\ out.status = 400 => out.detail = "Invalid template ID."
            /\ out.status = 404 => out.detail = "Template not found."
            /\ out.status = 200 =>
                  \E d \in collection :
                      /\ HasId(d, t)
                      /\ out = Rendered(200, "", d.html, d.css_files, d.js_files)
            /\ collection' = collection
            /\ files' = files

\* C8: the lookup answers InvalidId (400) exactly when the identifier is not
\* well-formed, NotFound (404) exactly when it is well-formed and no stored
\* record has it, and otherwise the html, cssPaths and jsPaths of the record
\* with that identifier as they were inserted; the two errors differ; the
\* lookup changes neither the records nor the files, and no step ever changes
\* or removes a stored record.
C8_FindById == [][C8_Lookup /\ collection \subseteq collection']_vars

\* C8 witness: a record found under an identifier written in upper case, another record stored
C8_Witness ==
    /\ rendered.out.status = 200
    /\ rendered.out.css_files # <<>>
    /\ \E i \in 1..Len(rendered.template_id) : rendered.template_id[i] = "B"
    /\ \E d \in collection : d.css_files # rendered.out.css_files

\* the stylesheet (script) a record's path entry was fetched from
SheetOf(d, path) ==
    TextAt(urljoin(d.url, SelectSeq(web[d.url], IsSheetLink)[path.idx + 1].href))
ScriptOf(d, path) ==
    TextAt(urljoin(d.url, SelectSeq(web[d.url], IsSrcScript)[path.idx + 1].src))

\* the stored paths
C9_Names ==
    \A d \in collection :
        /\ \A k \in 1..Len(d.css_files) :
              /\ d.css_files[k] = StylePath(d.css_files[k].idx)
              /\ d.css_files[k].idx \in 0..(Len(SelectSeq(web[d.url], IsSheetLink)) - 1)
        /\ \A k \in 1..Len(d.js_files) :
              /\ d.js_files[k] = ScriptPath(d.js_files[k].idx)
              /\ d.js_files[k].idx \in 0..(Len(SelectSeq(web[d.url], IsSrcScript)) - 1)

\* the step that writes an asset file
C9_Overwrite ==
    \A p \in Procs :
        /\ (pc[p] = "WritingCSS" /\ pc'[p] # pc[p]) =>
              LET path == StylePath(idx[p]) IN
              /\ css_files'[p] = Append(css_files[p], path)
              /\ files'[StaticFile(path)] \in
                    { SheetOf([url |-> url[p]], path), Garbled }
        /\ (pc[p] = "WritingJS" /\ pc'[p] # pc[p]) =>
              LET path == ScriptPath(idx[p]) IN
              /\ js_files'[p] = Append(js_files[p], path)
              /\ files'[StaticFile(path)] \in
                    { ScriptOf([url |-> url[p]], path), Garbled }

\* C9: a stored path is made of the kind and the position only, positions
\* counted from 0 in each scrape, and a scrape writes its file over whatever
\* the file of that name holds; so a record's cssPaths entry can name a file
\* that holds the stylesheet another scrape fetched.
C9_SharedAssetFiles == []C9_Names /\ [][C9_Overwrite]_vars

\* C9 witness: two records of different URLs name style_0.css, which holds the stylesheet
\* of one of them
C9_Witness ==
    \E d, e \in collection :
        /\ d.url # e.url
        /\ d.css_files # <<>> /\ e.css_files # <<>>
        /\ d.css_files[1] = e.css_files[1]
        /\ files[StaticFile(d.css_files[1])] = SheetOf(e, e.css_files[1])
        /\ files[StaticFile(d.css_files[1])] # SheetOf(d, d.css_files[1])

Chain == << "Fetching", "Extracting", "ArchivingCSS", "ArchivingJS",
            "CheckingDuplicate", "Inserted" >>
IsPrefix(s, t) == Len(s) <= Len(t) /\ \A i \in 1..Len(s) : s[i] = t[i]

\* the phases entered so far, and what a DuplicateUrl request has done
C10_Order ==
    \A p \in Procs :
        /\ \/ IsPrefix(trace[p], Chain)
           \/ trace[p] = << "Fetching", "FetchFailed" >>
           \/ trace[p] = SubSeq(Chain, 1, 5) \o << "DuplicateUrl" >>
        /\ trace[p] # <<>> => trace[p][Len(trace[p])] = Phase(pc[p])
        /\ pc[p] = "DuplicateUrl" =>
              /\ Len(CssAttempts(p)) = Len(LinkRefs(web[url[p]]))
              /\ Len(JsAttempts(p)) = Len(ScriptRefs(web[url[p]]))
              /\ css_files[p] = StylePaths(CssAttempts(p))
              /\ js_files[p] = ScriptPaths(JsAttempts(p))
              /\ \A k \in 1..Len(css_files[p]) :
                    files[StaticFile(css_files[p][k])].kind # "absent"
              /\ \A k \in 1..Len(js_files[p]) :
                    files[StaticFile(js_files[p][k])].kind # "absent"

\* C10: a request goes through Fetching, Extracting, ArchivingCSS,
\* ArchivingJS, CheckingDuplicate, Inserted in that order, each at most once,
\* leaving the chain only for FetchFailed after Fetching or for DuplicateUrl
\* after CheckingDuplicate; a request that ends in DuplicateUrl has made all
\* its asset fetches and file writes; and every request that has started
\* reaches a terminal state.
C10_ScrapePhases ==
    /\ []C10_Order
    /\ \A p \in Procs : (pc[p] \notin AtRest) ~> (pc[p] \in Terminal)

\* C10 witness: a request that lost the race ends in DuplicateUrl with its stylesheet archived
C10_Witness ==
    \E p \in Procs :
        /\ pc[p] = "DuplicateUrl"
        /\ ~WasStored(p)
        /\ css_files[p] # <<>>

====
